---- MODULE Spec2Model ----
(***************************************************************************)
(* Practice-Progress: the AuthProvider (identity / profile), the tier      *)
(* policy isPro and the PracticeTrackerApp store (athletes, sessions,      *)
(* goals, drill frequency) together with the PostgREST backend the db      *)
(* wrapper talks to.                                                       *)
(*                                                                         *)
(* Conventions.  Row ids are positive integers, 0 is JavaScript null.      *)
(* An optional object (profile, goals[skill]) is a sequence of length 0    *)
(* (null / undefined) or 1.  The empty string is the empty text; NullText  *)
(* is the SQL null of a text column.  NoError is error === null.           *)
(* A store handler is one action: it runs from the closure of the last     *)
(* render (isPro was computed at time renderNow) to its finally block,     *)
(* the outcome of every gateway call being chosen nondeterministically.    *)
(* The goals object is kept in FOCUS_OPTIONS key order; a missing key and  *)
(* a null value are not distinguished (every read is `goals[k]?.x`).       *)
(***************************************************************************)
EXTENDS Integers, Sequences, FiniteSets, TLC

\* ---------------------------------------------------------------- bounds
MaxNow == 1
MaxAthletes == 2
MaxSessions == 1
MaxGoalRows == 4
MaxInflight == 1

\* ------------------------------------------------------ program constants
FreeAthleteLimit == 1
ProAthleteLimit == 10
SessionFetchLimit == 50
DrillFrequencyLimit == 10
DefaultDuration == 30
MaxGoalsShown == 3

UserId == 1
ForeignAthleteId == 9
NullText == "<null>"
NoError == "<no error>"

FOCUS_OPTIONS == <<"hitting", "pitching", "fielding", "conditioning">>
Skills == {FOCUS_OPTIONS[i] : i \in 1..Len(FOCUS_OPTIONS)}

\* ------------------------------------------------------------ input sets
GoalTexts == {"", "g1"}
ExpiryValues == {0, 1}
LogForms ==
  { [date |-> 3, duration |-> 30, focus |-> <<"hitting">>,
     note |-> "", reflection |-> ""],
    [date |-> 1, duration |-> 45, focus |-> <<"pitching", "hitting">>,
     note |-> "n", reflection |-> "r"] }
LogDrillChoices ==
  { <<>>, <<"tee-work", "soft-toss">>, <<"tee-work", "soft-toss", "front-toss">> }
Outcomes == {"ok", "err", "fault"}
ProfileOutcomes == {"rows", "non2xx", "timeout", "fault", "malformed"}

VARIABLES
  now,            \* wall clock (new Date())
  renderNow,      \* wall clock at the last render of PracticeTrackerApp
  session,        \* identity provider: signed-in user id or 0
  dbProfile,      \* backend: profiles row of UserId (optional)
  dbAthletes,     \* backend: non-archived athletes of UserId, by id
  dbSessions,     \* backend: sessions rows
  dbDrills,       \* backend: session_drills rows
  dbGoals,        \* backend: goals rows
  storage,        \* localStorage.selectedAthleteId (0 = absent)
  boot,           \* AuthProvider: initial getSession() still pending
  user,           \* AuthProvider state
  profile,
  authLoading,
  inflight,       \* fetchProfile calls awaiting their response
  loadPending,    \* useEffect([user]) scheduled: 0 no, 1 isPro false, 2 isPro true
  athlete,        \* PracticeTrackerApp state
  athletes,
  sessions,
  goals,
  drillFrequency,
  loading,
  error,
  showGoalEdit,
  editGoalText,
  showAddAthlete,
  showProUpsell,
  saving,
  outstanding,    \* createAthlete calls awaiting the answer of their insert
  logDrills,      \* quick-log form: the drills ticked
  op,             \* name of the handler that ran last
  opPro,          \* the isPro value that handler's closure held
  reqs            \* gateway requests that handler issued, in order

dbVars == <<dbProfile, dbAthletes, dbSessions, dbDrills, dbGoals>>
authVars == <<boot, user, profile, authLoading, inflight>>
dataVars == <<athlete, athletes, sessions, goals, drillFrequency>>
uiVars == <<loading, error, showGoalEdit, editGoalText, showAddAthlete,
            showProUpsell, saving, outstanding, logDrills>>
vars == <<now, renderNow, session, dbVars, storage, authVars, loadPending,
          dataVars, uiVars, op, opPro, reqs>>

\* ----------------------------------------------------------- tier policy
Truthy(x) == x # 0

IsProBoundary(p, t) ==
  IF p = <<>> THEN FALSE
  ELSE p[1].is_pro /\ (~Truthy(p[1].pro_expires_at) \/ p[1].pro_expires_at >= t)

IsPro(p, t) ==
  IF p = <<>> THEN FALSE
  ELSE p[1].is_pro /\ (~Truthy(p[1].pro_expires_at) \/ p[1].pro_expires_at > t)

isPro == IsPro(profile, renderNow)

DefaultProfile(userId) ==
  <<[id |-> userId, is_pro |-> FALSE, pro_expires_at |-> 0]>>

\* --------------------------------------------------------- gateway log
Req(method, table, id, tag, limit, outcome) ==
  [method |-> method, table |-> table, id |-> id, tag |-> tag,
   limit |-> limit, outcome |-> outcome]

ErrMessage(r) == "rejected " \o r.method \o " " \o r.table \o " " \o r.tag

\* ------------------------------------------------------------ component
EmptyGoals == [s \in Skills |-> <<>>]

Mounted == user # 0 /\ ~authLoading

MainVisible == Mounted /\ loadPending = 0 /\ ~loading /\ athlete # 0

PromptVisible == Mounted /\ loadPending = 0 /\ ~loading /\ showAddAthlete

StoreReset ==
  /\ athlete' = 0
  /\ athletes' = <<>>
  /\ sessions' = <<>>
  /\ goals' = EmptyGoals
  /\ drillFrequency' = <<>>
  /\ loading' = TRUE
  /\ error' = NoError
  /\ showGoalEdit' = ""
  /\ editGoalText' = ""
  /\ showAddAthlete' = FALSE
  /\ showProUpsell' = FALSE
  /\ saving' = FALSE
  /\ outstanding' = 0
  /\ logDrills' = <<>>

StoreKeep == UNCHANGED <<dataVars, uiVars>>

\* After an AuthProvider state change: AppContent mounts, keeps or unmounts
\* PracticeTrackerApp; a mount or a new user object runs the [user] effect.
Remount(newUserObject) ==
  LET was == Mounted
      is == user' # 0 /\ ~authLoading'
  IN /\ IF is /\ ~was THEN StoreReset
        ELSE IF ~is /\ was THEN StoreReset
        ELSE StoreKeep
     /\ loadPending' =
          IF ~is THEN 0
          ELSE IF ~was \/ newUserObject
               THEN (IF IsPro(profile', now) THEN 2 ELSE 1)
               ELSE loadPending
     /\ renderNow' = now

\* A render of the mounted component after one of its own state changes.
Render == renderNow' = now

SavingFinallyKept == UNCHANGED saving

\* finally { setSaving(false) } of handleQuickLog, saveGoal, createAthlete
SavingFinally == saving' = FALSE

\* The page has just been opened: AuthProvider mounted, getSession() pending.
ClientInit ==
  /\ now = 0
  /\ renderNow = 0
  /\ boot = TRUE
  /\ user = 0
  /\ profile = <<>>
  /\ authLoading = TRUE
  /\ inflight = <<>>
  /\ loadPending = 0
  /\ athlete = 0
  /\ athletes = <<>>
  /\ sessions = <<>>
  /\ goals = EmptyGoals
  /\ drillFrequency = <<>>
  /\ loading = TRUE
  /\ error = NoError
  /\ showGoalEdit = ""
  /\ editGoalText = ""
  /\ showAddAthlete = FALSE
  /\ showProUpsell = FALSE
  /\ saving = FALSE
  /\ outstanding = 0
  /\ logDrills = <<>>
  /\ op = "init"
  /\ opPro = FALSE
  /\ reqs = <<>>

ProfileRow(isProFlag, expires) ==
  <<[id |-> UserId, is_pro |-> isProFlag, pro_expires_at |-> expires]>>

Init ==
  /\ ClientInit
  /\ session \in {0, UserId}
  /\ dbProfile \in {<<>>} \cup
       {ProfileRow(b, e) : b \in BOOLEAN, e \in ExpiryValues}
  /\ dbAthletes \in {<<>>, <<1>>}
  /\ dbSessions = {}
  /\ dbDrills = {}
  /\ dbGoals = {}
  /\ storage \in {0, ForeignAthleteId}

\* ------------------------------------------------------------ environment
Tick ==
  /\ now < MaxNow
  /\ now' = now + 1
  /\ op' = "tick"
  /\ UNCHANGED <<renderNow, session, dbVars, storage, authVars, loadPending,
                 dataVars, uiVars, opPro, reqs>>

\* The billing flow (external) rewrites the profiles row.
BillingChange ==
  /\ \E b \in BOOLEAN, e \in ExpiryValues :
       /\ dbProfile' = ProfileRow(b, e)
       /\ dbProfile' # dbProfile
  /\ op' = "billing"
  /\ UNCHANGED <<now, renderNow, session, dbAthletes, dbSessions, dbDrills,
                 dbGoals, storage, authVars, loadPending, dataVars,
                 uiVars, opPro, reqs>>

\* ------------------------------------------------------------ AuthProvider
StartFetch(userId, hasToken) ==
  inflight' = Append(inflight, [userId |-> userId, token |-> hasToken])

\* supabase.auth.getSession().then(...)
GetSessionResolved ==
  /\ boot
  /\ boot' = FALSE
  /\ user' = session
  /\ IF session # 0
     THEN /\ Len(inflight) < MaxInflight
          /\ StartFetch(session, TRUE)
          /\ authLoading' = authLoading
     ELSE /\ inflight' = inflight
          /\ authLoading' = FALSE
  /\ profile' = profile
  /\ Remount(TRUE)
  /\ op' = "getSession"
  /\ opPro' = FALSE
  /\ reqs' = <<>>
  /\ UNCHANGED <<now, session, dbVars, storage>>

\* onAuthStateChange callback, events that carry a session
AuthSessionEvent ==
  /\ ~boot
  /\ \/ session = 0 /\ user = 0 /\ ~authLoading /\ session' = UserId
     \/ session # 0 /\ session' = session
  /\ Len(inflight) < MaxInflight
  /\ user' = session'
  /\ StartFetch(session', TRUE)
  /\ UNCHANGED <<profile, authLoading>>
  /\ Remount(TRUE)
  /\ op' = "authEvent"
  /\ opPro' = FALSE
  /\ reqs' = <<>>
  /\ UNCHANGED <<now, boot, dbVars, storage>>

\* signOut() from the header, delivered as the SIGNED_OUT event
SignOut ==
  /\ MainVisible
  /\ session # 0
  /\ session' = 0
  /\ user' = 0
  /\ profile' = <<>>
  /\ authLoading' = FALSE
  /\ Remount(FALSE)
  /\ op' = "signOut"
  /\ opPro' = FALSE
  /\ reqs' = <<>>
  /\ UNCHANGED <<now, boot, inflight, dbVars, storage>>

\* The body the profiles endpoint answers with: the row is visible to its
\* owner's bearer token only (row level security), the anon key sees none.
ProfileRows(f) == IF f.token /\ f.userId = UserId THEN dbProfile ELSE <<>>

FetchedProfileKeep(f, outcome) ==
  IF outcome = "rows" /\ Len(ProfileRows(f)) > 0
  THEN <<ProfileRows(f)[1]>>
  ELSE profile

FetchedProfile(f, outcome) ==
  IF outcome = "rows" /\ Len(ProfileRows(f)) > 0
  THEN <<ProfileRows(f)[1]>>
  ELSE DefaultProfile(f.userId)

\* fetchProfile from its response (or abort, or fault) to setLoading(false)
FetchProfileDone ==
  /\ inflight # <<>>
  /\ \E i \in 1..Len(inflight), outcome \in ProfileOutcomes :
       /\ profile' = FetchedProfile(inflight[i], outcome)
       /\ inflight' = SubSeq(inflight, 1, i - 1) \o
                      SubSeq(inflight, i + 1, Len(inflight))
       /\ op' = "fetchProfile:" \o outcome
  /\ authLoading' = FALSE
  /\ UNCHANGED <<boot, user>>
  /\ Remount(FALSE)
  /\ opPro' = FALSE
  /\ reqs' = <<>>
  /\ UNCHANGED <<now, session, dbVars, storage>>

\* ------------------------------------------------------------ backend
\* The error object a rejected request answers with, and the fault fetch()
\* throws; the handler shows err.message.
FaultMessage(r) == "fault " \o r.method \o " " \o r.table \o " " \o r.tag

Message(r) == IF r.outcome = "err" THEN ErrMessage(r) ELSE FaultMessage(r)

Take(seq, n) == SubSeq(seq, 1, IF Len(seq) < n THEN Len(seq) ELSE n)

Range(seq) == {seq[i] : i \in 1..Len(seq)}

Injective(f) == \A i, j \in DOMAIN f : f[i] = f[j] => i = j

\* select athletes, archived_at is null, limit L, no order: any L rows
AthleteFetch(limit) ==
  LET n == IF Len(dbAthletes) < limit THEN Len(dbAthletes) ELSE limit
  IN { f \in [1..n -> Range(dbAthletes)] : Injective(f) }

\* select sessions of the athlete, order=date.desc, limit L
SessionRowsOf(athleteId) == {r \in dbSessions : r.athlete_id = athleteId}

SessionFetch(athleteId, limit) ==
  LET rows == SessionRowsOf(athleteId)
      n == Cardinality(rows)
      orders == { f \in [1..n -> rows] :
                    /\ Injective(f)
                    /\ \A i, j \in 1..n : i < j => f[i].date >= f[j].date }
  IN { Take(f, limit) : f \in orders }

\* select goals of the athlete with is_active = true
ActiveGoalRows(athleteId) ==
  {g \in dbGoals : g.athlete_id = athleteId /\ g.is_active}

\* the drill_frequency view: uses per drill over the athlete's sessions
DrillUses(athleteId, drillId) ==
  Cardinality({d \in dbDrills :
                 /\ d.drill_id = drillId
                 /\ \E r \in SessionRowsOf(athleteId) : r.id = d.session_id})

DrillFrequencyRows(athleteId) ==
  { [drill_id |-> d.drill_id, times_used |-> DrillUses(athleteId, d.drill_id)] :
      d \in {x \in dbDrills :
               \E r \in SessionRowsOf(athleteId) : r.id = x.session_id} }

DrillFrequencyFetch(athleteId, limit) ==
  LET rows == DrillFrequencyRows(athleteId)
      n == Cardinality(rows)
      orders == { f \in [1..n -> rows] :
                    /\ Injective(f)
                    /\ \A i, j \in 1..n :
                         i < j => f[i].times_used >= f[j].times_used }
  IN { Take(f, limit) : f \in orders }

\* ------------------------------------------------------- loadAthleteData
OrNull(text) == IF text = "" THEN NullText ELSE text

OrEmptyRaw(v) == v

OrEmpty(v) == IF v = NullText \/ v = "" THEN "" ELSE v

ToDisplay(s) ==
  [id |-> s.id, date |-> s.date, duration |-> s.duration_minutes,
   focus |-> s.focus, note |-> OrEmpty(s.note),
   reflection |-> OrEmpty(s.reflection)]

MapDisplay(rows) == [i \in 1..Len(rows) |-> ToDisplay(rows[i])]

GoalEntry(g) == <<[id |-> g.id, text |-> g.text, isActive |-> TRUE]>>

\* goalsMap after the forEach over goalData, whose row order is the backend's
GoalsMaps(athleteId) ==
  LET rows == ActiveGoalRows(athleteId)
  IN { m \in [Skills -> {<<>>} \cup {GoalEntry(g) : g \in rows}] :
         \A s \in Skills :
           IF \E g \in rows : g.skill = s
           THEN \E g \in rows : g.skill = s /\ m[s] = GoalEntry(g)
           ELSE m[s] = <<>> }

SessionsReq(athleteId, o) ==
  Req("select", "sessions", athleteId, "date.desc", SessionFetchLimit, o)

GoalsReq(athleteId, o) ==
  Req("select", "goals", athleteId, "is_active", 0, o)

FrequencyReq(athleteId, o) ==
  Req("select", "drill_frequency", athleteId, "times_used.desc",
      DrillFrequencyLimit, o)

FrequencyGateAlways(pro) == TRUE

FrequencyGate(pro) == pro

\* loadAthleteData(athleteId) in a closure whose isPro is pro, entered with
\* the error state error0 after the requests done have been issued.
LoadAthleteData(athleteId, pro, error0, done) ==
  \E o1, o2, o3 \in Outcomes :
    LET r1 == SessionsReq(athleteId, o1)
        r2 == GoalsReq(athleteId, o2)
        r3 == FrequencyReq(athleteId, o3)
    IN
    /\ loading' = FALSE
    /\ IF o1 # "ok"
       THEN /\ reqs' = done \o <<r1>>
            /\ error' = Message(r1)
            /\ UNCHANGED <<sessions, goals, drillFrequency>>
       ELSE
       /\ \E rows \in SessionFetch(athleteId, SessionFetchLimit) :
            sessions' = MapDisplay(rows)
       /\ IF o2 # "ok"
          THEN /\ reqs' = done \o <<r1, r2>>
               /\ error' = Message(r2)
               /\ UNCHANGED <<goals, drillFrequency>>
          ELSE
          /\ goals' \in GoalsMaps(athleteId)
          /\ IF ~FrequencyGate(pro)
             THEN /\ reqs' = done \o <<r1, r2>>
                  /\ error' = error0
                  /\ UNCHANGED drillFrequency
             ELSE
             /\ reqs' = done \o <<r1, r2, r3>>
             /\ CASE o3 = "ok" ->
                       /\ drillFrequency' \in
                            DrillFrequencyFetch(athleteId, DrillFrequencyLimit)
                       /\ error' = error0
                  [] o3 = "err" ->
                       /\ drillFrequency' = <<>>
                       /\ error' = error0
                  [] OTHER ->
                       /\ drillFrequency' = drillFrequency
                       /\ error' = Message(r3)

\* --------------------------------------------------------------- loadData
AthleteLimitAlwaysPro(pro) == ProAthleteLimit

AthleteLimit(pro) == IF pro THEN ProAthleteLimit ELSE FreeAthleteLimit

PickAthleteFirst(roster, saved) == roster[1]

PickAthlete(roster, saved) ==
  IF Truthy(saved) /\ saved \in Range(roster) THEN saved ELSE roster[1]

\* no athlete yet: setShowAddAthlete(true), setLoading(false), return
\* (r is the athletes request that was answered with no row)
ShowAddAthletePromptReset(r) ==
  /\ reqs' = <<r>>
  /\ showAddAthlete' = TRUE
  /\ loading' = FALSE
  /\ error' = NoError
  /\ storage' = 0
  /\ UNCHANGED dataVars

ShowAddAthletePrompt(r) ==
  /\ reqs' = <<r>>
  /\ showAddAthlete' = TRUE
  /\ loading' = FALSE
  /\ error' = NoError
  /\ UNCHANGED <<dataVars, storage>>

\* localStorage.setItem('selectedAthleteId', currentAthlete.id)
StoredSelectionKept(saved, chosen) == saved

StoredSelection(saved, chosen) == chosen

LoadData ==
  /\ Mounted
  /\ loadPending # 0
  /\ LET pro == (loadPending = 2) IN
     \E o \in Outcomes :
       LET r == Req("select", "athletes", 0, "archived_at.is.null",
                    AthleteLimit(pro), o)
       IN
       /\ opPro' = pro
       /\ IF o # "ok"
          THEN /\ reqs' = <<r>>
               /\ error' = Message(r)
               /\ loading' = FALSE
               /\ UNCHANGED <<dataVars, showAddAthlete, storage>>
          ELSE \E roster \in AthleteFetch(AthleteLimit(pro)) :
               IF Len(roster) = 0
               THEN ShowAddAthletePrompt(r)
               ELSE /\ athletes' = roster
                    /\ athlete' = PickAthlete(roster, storage)
                    /\ storage' = StoredSelection(storage, athlete')
                    /\ UNCHANGED showAddAthlete
                    /\ LoadAthleteData(athlete', pro, NoError, <<r>>)
  /\ loadPending' = 0
  /\ op' = "loadData"
  /\ Render
  /\ UNCHANGED <<now, session, dbVars, authVars, showGoalEdit, editGoalText,
                 showProUpsell, saving, outstanding, logDrills>>

\* A modal (add athlete, goal editor, upsell) is a full-screen overlay
\* above the header and the cards.
MainClickable ==
  MainVisible /\ ~showAddAthlete /\ showGoalEdit = "" /\ ~showProUpsell

\* ---------------------------------------------------- handleSelectAthlete
HandleSelectAthlete ==
  /\ MainClickable
  /\ isPro
  /\ \E selected \in Range(athletes) :
       /\ athlete' = selected
       /\ storage' = selected
       /\ UNCHANGED athletes
       /\ LoadAthleteData(selected, isPro, error, <<>>)
  /\ op' = "handleSelectAthlete"
  /\ opPro' = isPro
  /\ Render
  /\ UNCHANGED <<now, session, dbVars, authVars, loadPending, showGoalEdit,
                 editGoalText, showAddAthlete, showProUpsell, saving, outstanding,
                 logDrills>>

\* --------------------------------------------------------- handleQuickLog
\* toggleDrill: the drill chips are rendered for isPro only
SelectDrills ==
  /\ MainClickable
  /\ isPro
  /\ \E d \in LogDrillChoices : logDrills' = d /\ d # logDrills
  /\ op' = "toggleDrill"
  /\ opPro' = isPro
  /\ reqs' = <<>>
  /\ Render
  /\ UNCHANGED <<now, session, dbVars, storage, authVars, loadPending,
                 dataVars, loading, error, showGoalEdit, editGoalText,
                 showAddAthlete, showProUpsell, saving, outstanding>>

SessionRow(id, athleteId, form) ==
  [id |-> id, athlete_id |-> athleteId, date |-> form.date,
   duration_minutes |-> form.duration, focus |-> form.focus,
   note |-> OrNull(form.note), reflection |-> OrNull(form.reflection)]

DrillReq(drillId, o) == Req("insert", "session_drills", 0, drillId, 0, o)

DrillGateAlways(pro, drills) == Len(drills) > 0

DrillGate(pro, drills) == pro /\ Len(drills) > 0

\* A loop that awaits one request per item and is left by the first throw:
\* the number of requests it issues over n items when the one of item stop is
\* the first to throw (stop = n + 1: none throws).
IssuedAll(n, stop) == n

Issued(n, stop) == IF stop <= n THEN stop ELSE n

\* the rows the loop has inserted when the k-th insert is the first to fail
\* (k = Len(drills) + 1: none fails)
InsertedDrillsRollback(sessionId, drills, k) ==
  IF k <= Len(drills) THEN {}
  ELSE {[session_id |-> sessionId, drill_id |-> drills[i]] : i \in 1..Len(drills)}

InsertedDrills(sessionId, drills, k) ==
  {[session_id |-> sessionId, drill_id |-> drills[i]] : i \in 1..(k - 1)}

Prepend(s, list) == <<s>> \o list

\* the sessions logged since the page was opened (ids 1..MaxSessions)
LoggedSessions == {r \in dbSessions : r.id <= MaxSessions}

HandleQuickLog ==
  /\ MainClickable
  /\ ~saving
  /\ Cardinality(LoggedSessions) < MaxSessions
  /\ \E form \in LogForms, o \in Outcomes :
       LET newSession == SessionRow(Cardinality(LoggedSessions) + 1, athlete, form)
           r == Req("insert", "sessions", newSession.id, "", 0, o)
       IN
       /\ Len(form.focus) # 0
       /\ IF o # "ok"
          THEN /\ reqs' = <<r>>
               /\ error' = Message(r)
               /\ UNCHANGED <<dbSessions, dbDrills, sessions, logDrills>>
          ELSE
          /\ dbSessions' = dbSessions \cup {newSession}
          /\ IF ~DrillGate(isPro, logDrills)
             THEN /\ reqs' = <<r>>
                  /\ dbDrills' = dbDrills
                  /\ sessions' = Prepend(ToDisplay(newSession), sessions)
                  /\ logDrills' = <<>>
                  /\ error' = NoError
             ELSE \E k \in 1..(Len(logDrills) + 1), kind \in {"err", "fault"} :
                  LET issued == Issued(Len(logDrills), k)
                      dr == [i \in 1..issued |->
                              DrillReq(logDrills[i], IF i < k THEN "ok" ELSE kind)]
                  IN
                  /\ reqs' = <<r>> \o dr
                  /\ dbDrills' = dbDrills \cup
                                 InsertedDrills(newSession.id, logDrills, k)
                  /\ IF k <= Len(logDrills)
                     THEN /\ error' = Message(dr[k])
                          /\ UNCHANGED <<sessions, logDrills>>
                     ELSE /\ error' = NoError
                          /\ sessions' = Prepend(ToDisplay(newSession), sessions)
                          /\ logDrills' = <<>>
  /\ SavingFinally
  /\ UNCHANGED outstanding
  /\ op' = "handleQuickLog"
  /\ opPro' = isPro
  /\ Render
  /\ UNCHANGED <<now, session, dbProfile, dbAthletes, dbGoals, storage,
                 authVars, loadPending, athlete, athletes, goals,
                 drillFrequency, loading, showGoalEdit, editGoalText,
                 showAddAthlete, showProUpsell>>

\* ---------------------------------------------------------------- saveGoal
IsActive(entry) == entry # <<>> /\ entry[1].isActive

ActiveSkills(g) == {k \in Skills : IsActive(g[k])}

\* Object.entries(goals).filter(([k, g]) => k !== skill && g?.isActive)
OtherActiveGoals(g, skill) ==
  SelectSeq(FOCUS_OPTIONS, LAMBDA k : k # skill /\ IsActive(g[k]))

DeactivateAlways(pro) == TRUE

Deactivate(pro) == ~pro

\* backend: PATCH goals?id=eq.id
UpdateGoals(rows, ids, patchActive) ==
  { IF g.id \in ids THEN [g EXCEPT !.is_active = patchActive] ELSE g : g \in rows }

UpdateGoalTextActivate(rows, id, text) ==
  { IF g.id = id THEN [g EXCEPT !.text = text, !.is_active = TRUE] ELSE g : g \in rows }

UpdateGoalText(rows, id, text) ==
  { IF g.id = id THEN [g EXCEPT !.text = text] ELSE g : g \in rows }

\* updatedGoals of the insert branch
MirrorGoals(g, skill, pro, newGoal) ==
  [k \in Skills |->
     IF k = skill
     THEN <<[id |-> newGoal.id, text |-> newGoal.text, isActive |-> TRUE]>>
     ELSE IF Deactivate(pro) /\ g[k] # <<>>
          THEN <<[g[k][1] EXCEPT !.isActive = FALSE]>>
          ELSE g[k]]

ClearedGoalsAll(g, skill) == [k \in Skills |-> <<>>]

\* setGoals(prev => ({ ...prev, [skill]: null }))
ClearedGoals(g, skill) == [g EXCEPT ![skill] = <<>>]

CloseGoalEditor ==
  /\ showGoalEdit' = ""
  /\ editGoalText' = ""

SkillIndex(skill) == CHOOSE i \in 1..Len(FOCUS_OPTIONS) : FOCUS_OPTIONS[i] = skill

\* The id the backend gives a new goals row: an id no row and no client
\* state holds (ids are uuids; the least unused number of the skill's
\* residue class stands for one).
FreshGoalId(skill) ==
  LET used == {g.id : g \in dbGoals} \cup
              {goals[k][1].id : k \in {x \in Skills : goals[x] # <<>>}}
      n == Len(FOCUS_OPTIONS)
      free == {j \in 0..(2 * MaxGoalRows) : SkillIndex(skill) + n * j \notin used}
  IN SkillIndex(skill) + n * (CHOOSE j \in free : \A i \in free : j <= i)

SaveGoalDelete(skill) ==
  LET existingGoal == goals[skill] IN
  IF existingGoal # <<>>
  THEN \E o \in Outcomes :
       LET r == Req("delete", "goals", existingGoal[1].id, "", 0, o) IN
       /\ reqs' = <<r>>
       /\ IF o = "ok"
          THEN /\ dbGoals' = {g \in dbGoals : g.id # existingGoal[1].id}
               /\ goals' = ClearedGoals(goals, skill)
               /\ error' = NoError
               /\ CloseGoalEditor
          ELSE /\ error' = Message(r)
               /\ UNCHANGED <<dbGoals, goals, showGoalEdit, editGoalText>>
  ELSE /\ reqs' = <<>>
       /\ goals' = ClearedGoals(goals, skill)
       /\ error' = NoError
       /\ CloseGoalEditor
       /\ UNCHANGED dbGoals

SaveGoalUpdate(skill) ==
  LET existingGoal == goals[skill] IN
  \E o \in Outcomes :
    LET r == Req("update", "goals", existingGoal[1].id, "text", 0, o) IN
    /\ reqs' = <<r>>
    /\ IF o = "ok"
       THEN /\ dbGoals' = UpdateGoalText(dbGoals, existingGoal[1].id, editGoalText)
            /\ goals' = [goals EXCEPT
                           ![skill] = <<[existingGoal[1] EXCEPT !.text = editGoalText]>>]
            /\ error' = NoError
            /\ CloseGoalEditor
       ELSE /\ error' = Message(r)
            /\ UNCHANGED <<dbGoals, goals, showGoalEdit, editGoalText>>

SaveGoalInsert(skill) ==
  LET others == IF Deactivate(isPro) THEN OtherActiveGoals(goals, skill) ELSE <<>>
      n == Len(others)
  IN
  /\ Cardinality(dbGoals) < MaxGoalRows
  /\ \E outs \in [1..n -> Outcomes], o \in Outcomes :
       LET faults == {i \in 1..n : outs[i] = "fault"}
           \* the first update that throws ends the loop in the catch block
           stop == IF faults = {} THEN n + 1
                   ELSE CHOOSE i \in faults : \A j \in faults : i <= j
           issued == Issued(n, stop)
           ur == [i \in 1..issued |->
                   Req("update", "goals", goals[others[i]][1].id, "is_active", 0,
                       outs[i])]
           applied == {goals[others[i]][1].id : i \in {j \in 1..issued : outs[j] = "ok"}}
           deactivated == UpdateGoals(dbGoals, applied, FALSE)
           newGoal == [id |-> FreshGoalId(skill), athlete_id |-> athlete, skill |-> skill,
                       text |-> editGoalText, is_active |-> TRUE]
           ir == Req("insert", "goals", newGoal.id, skill, 0, o)
       IN
       IF stop <= n
       THEN /\ reqs' = ur
            /\ dbGoals' = deactivated
            /\ error' = Message(ur[stop])
            /\ UNCHANGED <<goals, showGoalEdit, editGoalText>>
       ELSE
       /\ reqs' = ur \o <<ir>>
       /\ IF o = "ok"
          THEN /\ dbGoals' = deactivated \cup {newGoal}
               /\ goals' = MirrorGoals(goals, skill, isPro, newGoal)
               /\ error' = NoError
               /\ CloseGoalEditor
          ELSE /\ dbGoals' = deactivated
               /\ error' = Message(ir)
               /\ UNCHANGED <<goals, showGoalEdit, editGoalText>>

SaveGoal ==
  /\ MainVisible
  /\ showGoalEdit # ""
  /\ ~saving
  /\ LET skill == showGoalEdit IN
     IF editGoalText = "" THEN SaveGoalDelete(skill)
     ELSE IF goals[skill] # <<>> THEN SaveGoalUpdate(skill)
     ELSE SaveGoalInsert(skill)
  /\ SavingFinally
  /\ UNCHANGED outstanding
  /\ op' = "saveGoal"
  /\ opPro' = isPro
  /\ Render
  /\ UNCHANGED <<now, session, dbProfile, dbAthletes, dbSessions, dbDrills,
                 storage, authVars, loadPending, athlete, athletes, sessions,
                 drillFrequency, loading, showAddAthlete, showProUpsell,
                 logDrills>>

\* ----------------------------------------------------------- createAthlete
AppendAthleteDropped(roster, newAthlete) == roster

\* setAthletes(prev => [...prev, newAthlete])
AppendAthlete(roster, newAthlete) == Append(roster, newAthlete)

\* createAthlete from the answer of db.insert to the end of finally
CreateAthleteAnswered ==
  /\ \E o \in Outcomes :
       LET newAthlete == Len(dbAthletes) + 1
           r == Req("insert", "athletes", newAthlete, "", 0, o)
       IN
       /\ reqs' = <<r>>
       /\ IF o = "ok"
          THEN /\ dbAthletes' = Append(dbAthletes, newAthlete)
               /\ athletes' = AppendAthlete(athletes, newAthlete)
               /\ athlete' = newAthlete
               /\ showAddAthlete' = FALSE
               /\ error' = NoError
          ELSE /\ error' = Message(r)
               /\ UNCHANGED <<dbAthletes, athletes, athlete, showAddAthlete>>
  /\ SavingFinally
  /\ op' = "createAthlete"
  /\ opPro' = isPro
  /\ Render
  /\ UNCHANGED <<now, session, dbProfile, dbSessions, dbDrills, dbGoals,
                 storage, authVars, loadPending, sessions, goals,
                 drillFrequency, loading, showGoalEdit, editGoalText,
                 showProUpsell, logDrills>>

\* The Continue button (disabled while saving): the whole handler.
CreateAthlete ==
  /\ PromptVisible
  /\ ~saving
  /\ Len(dbAthletes) < MaxAthletes
  /\ CreateAthleteAnswered
  /\ UNCHANGED outstanding

\* createAthlete() called on the component, up to its await: the function
\* checks the name only, not the saving flag.
CreateAthleteCalled ==
  /\ PromptVisible
  /\ Len(dbAthletes) + outstanding < MaxAthletes
  /\ saving' = TRUE
  /\ error' = NoError
  /\ outstanding' = outstanding + 1
  /\ op' = "createAthlete:called"
  /\ opPro' = isPro
  /\ reqs' = <<>>
  /\ Render
  /\ UNCHANGED <<now, session, dbVars, storage, authVars, loadPending,
                 dataVars, loading, showGoalEdit, editGoalText,
                 showAddAthlete, showProUpsell, logDrills>>

\* the insert of a called createAthlete is answered
CreateAthleteReturned ==
  /\ Mounted
  /\ outstanding > 0
  /\ CreateAthleteAnswered
  /\ outstanding' = outstanding - 1

\* ------------------------------------------------------------ UI handlers
\* An onClick handler that only sets UI state of PracticeTrackerApp.
UiStep(name) ==
  /\ op' = name
  /\ opPro' = isPro
  /\ reqs' = <<>>
  /\ Render
  /\ UNCHANGED <<now, session, dbVars, storage, boot, user, profile,
                 authLoading, loadPending, dataVars, loading, saving,
                 outstanding>>

\* AthleteSelector, "Add Athlete": the dropdown exists for isPro only
OpenAddAthlete ==
  /\ MainClickable
  /\ isPro
  /\ showAddAthlete' = TRUE
  /\ UiStep("onAddAthlete")
  /\ UNCHANGED <<error, showGoalEdit, editGoalText, showProUpsell, logDrills,
                 inflight>>

OpenProUpsell ==
  /\ MainClickable
  /\ ~isPro
  /\ showProUpsell' = TRUE
  /\ UiStep("openProUpsell")
  /\ UNCHANGED <<error, showGoalEdit, editGoalText, showAddAthlete, logDrills,
                 inflight>>

CloseProUpsell ==
  /\ MainVisible
  /\ showProUpsell
  /\ showProUpsell' = FALSE
  /\ UiStep("closeProUpsell")
  /\ UNCHANGED <<error, showGoalEdit, editGoalText, showAddAthlete, logDrills,
                 inflight>>

\* "Start Pro Trial": refreshProfile() is fetchProfile(user.id), no token
RefreshProfile ==
  /\ MainVisible
  /\ showProUpsell
  /\ Len(inflight) < MaxInflight
  /\ StartFetch(user, FALSE)
  /\ showProUpsell' = FALSE
  /\ UiStep("refreshProfile")
  /\ UNCHANGED <<error, showGoalEdit, editGoalText, showAddAthlete, logDrills>>

DismissError ==
  /\ MainClickable
  /\ error # NoError
  /\ error' = NoError
  /\ UiStep("dismissError")
  /\ UNCHANGED <<showGoalEdit, editGoalText, showAddAthlete, showProUpsell,
                 logDrills, inflight>>

FirstOf(seq, default) == IF seq = <<>> THEN default ELSE seq[1]

TextOf(entry) == IF entry = <<>> THEN "" ELSE entry[1].text

OpenEditor(skill, text) ==
  /\ showGoalEdit' = skill
  /\ editGoalText' = text
  /\ UNCHANGED <<error, showAddAthlete, showProUpsell, logDrills, inflight>>

\* goal card, Add / Edit
OpenGoalEdit ==
  /\ MainClickable
  /\ LET skill == FirstOf(SelectSeq(FOCUS_OPTIONS, LAMBDA k : IsActive(goals[k])),
                          "hitting")
     IN OpenEditor(skill, TextOf(goals[skill]))
  /\ UiStep("openGoalEdit")

\* goal card, "Add another goal" (isPro, fewer than 3 active goals shown)
AddAnotherGoal ==
  /\ MainClickable
  /\ isPro
  /\ Cardinality(ActiveSkills(goals)) > 0
  /\ Cardinality(ActiveSkills(goals)) < MaxGoalsShown
  /\ LET unusedSkill ==
           FirstOf(SelectSeq(FOCUS_OPTIONS, LAMBDA k : ~IsActive(goals[k])),
                   "hitting")
     IN OpenEditor(unusedSkill, "")
  /\ UiStep("addAnotherGoal")

\* Set Goal modal, skill chips
SelectGoalSkill ==
  /\ MainVisible
  /\ showGoalEdit # ""
  /\ \E k \in Skills :
       /\ k # showGoalEdit
       /\ OpenEditor(k, TextOf(goals[k]))
  /\ UiStep("selectGoalSkill")

TypeGoalText ==
  /\ MainVisible
  /\ showGoalEdit # ""
  /\ \E t \in GoalTexts :
       /\ t # editGoalText
       /\ editGoalText' = t
  /\ UiStep("typeGoalText")
  /\ UNCHANGED <<error, showGoalEdit, showAddAthlete, showProUpsell, logDrills,
                 inflight>>

CancelGoalEdit ==
  /\ MainVisible
  /\ showGoalEdit # ""
  /\ showGoalEdit' = ""
  /\ UiStep("cancelGoalEdit")
  /\ UNCHANGED <<error, editGoalText, showAddAthlete, showProUpsell, logDrills,
                 inflight>>

\* ------------------------------------------------------------ specification
Next ==
  \/ Tick
  \/ BillingChange
  \/ GetSessionResolved
  \/ AuthSessionEvent
  \/ SignOut
  \/ FetchProfileDone
  \/ LoadData
  \/ HandleSelectAthlete
  \/ SelectDrills
  \/ HandleQuickLog
  \/ SaveGoal
  \/ CreateAthlete
  \/ OpenAddAthlete
  \/ OpenProUpsell
  \/ CloseProUpsell
  \/ RefreshProfile
  \/ DismissError
  \/ OpenGoalEdit
  \/ AddAnotherGoal
  \/ SelectGoalSkill
  \/ TypeGoalText
  \/ CancelGoalEdit

Spec == Init /\ [][Next]_vars

\* The goal editor and saveGoal for an account whose backend already holds
\* goals (set while entitled), signed in as free or as Pro.
NextGoals ==
  \/ GetSessionResolved
  \/ FetchProfileDone
  \/ LoadData
  \/ OpenGoalEdit
  \/ AddAnotherGoal
  \/ SelectGoalSkill
  \/ TypeGoalText
  \/ CancelGoalEdit
  \/ SaveGoal

GoalRow(id, skill) ==
  [id |-> id, athlete_id |-> 1, skill |-> skill, text |-> "g0", is_active |-> TRUE]

InitGoals ==
  /\ ClientInit
  /\ session = UserId
  /\ dbProfile \in {ProfileRow(b, 0) : b \in BOOLEAN}
  /\ dbAthletes = <<1>>
  /\ dbSessions = {}
  /\ dbDrills = {}
  /\ dbGoals \in { {GoalRow(i + 1, FOCUS_OPTIONS[i + 1]) : i \in 1..n} : n \in 0..3 }
  /\ storage = 0

SpecGoals == InitGoals /\ [][NextGoals]_vars

\* Practice logging and the per-athlete load under a profile that changes
\* (token refresh, failed profile fetch, expiry).
NextLog ==
  \/ Tick
  \/ GetSessionResolved
  \/ FetchProfileDone
  \/ LoadData
  \/ HandleSelectAthlete
  \/ SelectDrills
  \/ HandleQuickLog

\* a session logged on an earlier visit
OlderSession ==
  [id |-> MaxSessions + 1, athlete_id |-> 1, date |-> 2, duration_minutes |-> 60,
   focus |-> <<"fielding">>, note |-> NullText, reflection |-> "r0"]

InitLog ==
  /\ ClientInit
  /\ session = UserId
  /\ dbProfile \in {ProfileRow(TRUE, 1), ProfileRow(FALSE, 0)}
  /\ dbAthletes = <<1>>
  /\ dbSessions = {OlderSession}
  /\ dbDrills = {}
  /\ dbGoals = {}
  /\ storage = 0

SpecLog == InitLog /\ [][NextLog]_vars

\* The roster: athlete selection and creation under a profile that a
\* token refresh may replace.
NextRoster ==
  \/ GetSessionResolved
  \/ AuthSessionEvent
  \/ FetchProfileDone
  \/ LoadData
  \/ HandleSelectAthlete
  \/ OpenAddAthlete
  \/ CreateAthlete

InitRoster ==
  /\ ClientInit
  /\ session = UserId
  /\ dbProfile \in {ProfileRow(b, 0) : b \in BOOLEAN}
  /\ \/ /\ dbAthletes = <<>>
        /\ dbSessions = {}
        /\ dbGoals = {}
     \/ /\ dbAthletes = <<1>>
        /\ dbSessions = {OlderSession}
        /\ dbGoals = {GoalRow(2, "pitching")}
  /\ dbDrills = {}
  /\ storage \in {0, ForeignAthleteId}

SpecRoster == InitRoster /\ [][NextRoster]_vars

\* Authentication and the entitlement: sign-in, token refresh, sign-out,
\* billing changes, expiry and the upsell's profile refresh.
NextAuth ==
  \/ Tick
  \/ BillingChange
  \/ GetSessionResolved
  \/ AuthSessionEvent
  \/ SignOut
  \/ FetchProfileDone
  \/ LoadData
  \/ HandleSelectAthlete
  \/ OpenProUpsell
  \/ CloseProUpsell
  \/ RefreshProfile

InitAuth ==
  /\ ClientInit
  /\ session \in {0, UserId}
  /\ dbProfile \in {<<>>} \cup
       {ProfileRow(b, e) : b \in BOOLEAN, e \in ExpiryValues}
  /\ dbAthletes = <<1>>
  /\ dbSessions = {}
  /\ dbDrills = {}
  /\ dbGoals = {}
  /\ storage = 0

SpecAuth == InitAuth /\ [][NextAuth]_vars

\* The two actions that issue several requests: logging a practice with
\* drills and saving a goal next to goals that are active already.
NextActions ==
  \/ GetSessionResolved
  \/ FetchProfileDone
  \/ LoadData
  \/ SelectDrills
  \/ HandleQuickLog
  \/ OpenGoalEdit
  \/ SelectGoalSkill
  \/ TypeGoalText
  \/ SaveGoal

\* goals rows of an athlete of another account (never visible to this one)
ForeignGoals ==
  {[id |-> i, athlete_id |-> ForeignAthleteId, skill |-> "hitting",
    text |-> "g0", is_active |-> TRUE] : i \in 1..MaxGoalRows}

\* a free account with two active goals, or a Pro account without goals
InitActions ==
  /\ ClientInit
  /\ session = UserId
  /\ \/ /\ dbProfile = ProfileRow(FALSE, 0)
        /\ dbGoals = {GoalRow(2, "pitching"), GoalRow(3, "fielding")}
     \/ /\ dbProfile = ProfileRow(TRUE, 0)
        /\ dbGoals = ForeignGoals
  /\ dbAthletes = <<1>>
  /\ dbSessions = {}
  /\ dbDrills = {}
  /\ storage = 0

SpecActions == InitActions /\ [][NextActions]_vars

\* The loading and saving flags: the loads, the three mutations, and
\* createAthlete in two steps so that calls can overlap.
NextSaving ==
  \/ GetSessionResolved
  \/ FetchProfileDone
  \/ LoadData
  \/ HandleSelectAthlete
  \/ OpenAddAthlete
  \/ CreateAthleteCalled
  \/ CreateAthleteReturned
  \/ HandleQuickLog
  \/ OpenGoalEdit
  \/ TypeGoalText
  \/ SaveGoal

InitSaving ==
  /\ ClientInit
  /\ session = UserId
  /\ dbProfile = ProfileRow(TRUE, 0)
  /\ dbAthletes \in {<<>>, <<1>>}
  /\ dbSessions = {}
  /\ dbDrills = {}
  /\ dbGoals = {g \in ForeignGoals : g.id > 1}
  /\ storage = 0

SpecSaving == InitSaving /\ [][NextSaving]_vars

\* every issued gateway call is answered: a pending load runs to its end
\* and the insert of a called createAthlete returns
FairSaving ==
  /\ SpecSaving
  /\ WF_vars(GetSessionResolved)
  /\ WF_vars(FetchProfileDone)
  /\ WF_vars(LoadData)
  /\ WF_vars(CreateAthleteReturned)

\* ------------------------------------------------------------- properties
NewGoalRows == {g \in dbGoals' : g.id \notin {x.id : x \in dbGoals}}

\* a saveGoal step that takes the insert branch for skill showGoalEdit and
\* whose insert the backend accepts
SaveGoalCreates ==
  /\ op' = "saveGoal"
  /\ showGoalEdit # ""
  /\ editGoalText # ""
  /\ goals[showGoalEdit] = <<>>
  /\ NewGoalRows # {}

\* C1: free tier, saveGoal(X) creating a goal for a skill without one leaves
\* exactly one active goal for the current athlete in the backend, the new
\* goal for X, whatever the deactivation updates answered.
C1_FreeCreateLeavesOneActive ==
  [][ (SaveGoalCreates /\ ~isPro) =>
        /\ {g \in dbGoals' : g.athlete_id = athlete /\ g.is_active} = NewGoalRows
        /\ \A g \in NewGoalRows : g.skill = showGoalEdit ]_vars

\* the in-memory map shows exactly the backend's active goals of the athlete
LocalMatchesBackend ==
  /\ \A k \in Skills : goals[k] # <<>> => goals[k][1].isActive
  /\ {[id |-> goals[k][1].id, skill |-> k, text |-> goals[k][1].text] :
        k \in ActiveSkills(goals)}
     = {[id |-> g.id, skill |-> g.skill, text |-> g.text] :
        g \in ActiveGoalRows(athlete)}

\* C5: Pro tier, saveGoal(X) creating a goal while exactly the goals of two
\* other skills Y and Z are active issues no update and no delete, and then
\* backend and in-memory map hold three active goals: the new one for X and
\* the goals of Y and Z with id, text and active flag unchanged.
C5_ProCreateKeepsOthers ==
  [][ (/\ SaveGoalCreates
       /\ isPro
       /\ Cardinality(ActiveSkills(goals)) = 2
       /\ LocalMatchesBackend) =>
        /\ \A i \in 1..Len(reqs') : reqs'[i].method \notin {"update", "delete"}
        /\ \A k \in Skills \ {showGoalEdit} : goals'[k] = goals[k]
        /\ IsActive(goals'[showGoalEdit])
        /\ Cardinality(ActiveSkills(goals')) = 3
        /\ {g \in dbGoals' : g.athlete_id = athlete /\ g.is_active}
             = ActiveGoalRows(athlete) \cup NewGoalRows
        /\ Cardinality({g \in dbGoals' : g.athlete_id = athlete /\ g.is_active}) = 3
        /\ \A g \in NewGoalRows :
             /\ g.skill = showGoalEdit
             /\ goals'[showGoalEdit][1].id = g.id
             /\ goals'[showGoalEdit][1].text = g.text ]_vars

C5_Witness ==
  /\ op = "saveGoal"
  /\ opPro
  /\ Len(reqs) = 1 /\ reqs[1].method = "insert" /\ reqs[1].outcome = "ok"
  /\ Cardinality(ActiveSkills(goals)) = 3
  /\ Cardinality(ActiveGoalRows(athlete)) = 3

\* a saveGoal step with empty text for a skill that has no goal
SaveGoalEmptyNoGoal ==
  /\ op' = "saveGoal"
  /\ showGoalEdit # ""
  /\ editGoalText = ""
  /\ goals[showGoalEdit] = <<>>

\* C7 as stated: saveGoal with empty text for a skill without a goal issues
\* no request and leaves the goals map, the error message and the goal-edit
\* form state as they were.
C7_EmptySaveChangesNothing ==
  [][ SaveGoalEmptyNoGoal =>
        /\ reqs' = <<>>
        /\ goals' = goals
        /\ error' = error
        /\ showGoalEdit' = showGoalEdit
        /\ editGoalText' = editGoalText ]_vars

\* C7 amended: saveGoal with empty text for a skill without a goal issues no
\* request and leaves the goals map and the backend goals unchanged; it
\* clears the error message and closes the goal editor.
C7_EmptySaveNoRequest ==
  [][ SaveGoalEmptyNoGoal =>
        /\ reqs' = <<>>
        /\ goals' = goals
        /\ dbGoals' = dbGoals
        /\ error' = NoError
        /\ showGoalEdit' = ""
        /\ editGoalText' = "" ]_vars

C7_Witness ==
  /\ op = "saveGoal"
  /\ reqs = <<>>
  /\ showGoalEdit = ""
  /\ ActiveSkills(goals) # {}

\* a request only the Pro tier may issue
ProOnlyRequest(r) ==
  \/ r.method = "insert" /\ r.table = "session_drills"
  \/ r.method = "select" /\ r.table = "drill_frequency"
  \/ r.method = "select" /\ r.table = "athletes" /\ r.limit > FreeAthleteLimit

\* C2: an operation whose isPro was false when it started issues no
\* session_drills insert (also with drills selected), no drill_frequency
\* select and no athletes select with a limit above 1; drillFrequency is
\* filled only by an operation whose isPro was true, so it stays empty while
\* the entitlement has been false since mount.
C2_FreeIssuesNoProRequest ==
  /\ [](~opPro => \A i \in 1..Len(reqs) : ~ProOnlyRequest(reqs[i]))
  /\ [][ (drillFrequency' # drillFrequency /\ drillFrequency' # <<>>)
           => opPro' ]_vars

C2_Witness ==
  /\ op = "handleQuickLog"
  /\ ~opPro
  /\ logDrills # <<>>
  /\ dbDrills = {}

\* a Pro handleQuickLog step with drills selected whose session insert is
\* accepted and one of whose drill inserts fails
PartialDrillFailure ==
  /\ op' = "handleQuickLog"
  /\ isPro
  /\ Len(logDrills) > 0
  /\ reqs'[1].outcome = "ok"
  /\ \E i \in 2..Len(reqs') : reqs'[i].outcome # "ok"

FirstFailedDrill ==
  CHOOSE k \in 1..(Len(reqs') - 1) :
    /\ reqs'[k + 1].outcome # "ok"
    /\ \A j \in 1..(k - 1) : reqs'[j + 1].outcome = "ok"

\* C4: Pro handleQuickLog with drills d1..dn, session insert accepted and dk
\* the first drill insert to fail: afterwards the backend holds the session
\* and session_drills rows for exactly d1..d(k-1), no insert was issued for
\* d(k+1)..dn, no delete was issued, and the error message is the failure's.
C4_PartialDrillsKept ==
  [][ PartialDrillFailure =>
        LET k == FirstFailedDrill
            id == reqs'[1].id
        IN
        /\ \E r \in dbSessions' \ dbSessions : r.id = id /\ r.athlete_id = athlete
        /\ dbDrills \subseteq dbDrills'
        /\ {d \in dbDrills' : d.session_id = id}
             = {[session_id |-> id, drill_id |-> logDrills[i]] : i \in 1..(k - 1)}
        /\ Len(reqs') = k + 1
        /\ \A i \in 1..k : reqs'[i + 1] = DrillReq(logDrills[i], reqs'[i + 1].outcome)
        /\ \A i \in 1..Len(reqs') : reqs'[i].method # "delete"
        /\ error' = Message(reqs'[k + 1]) ]_vars

C4_Witness ==
  /\ op = "handleQuickLog"
  /\ opPro
  /\ Len(logDrills) = 3
  /\ Len(reqs) = 3
  /\ reqs[2].outcome = "ok"
  /\ reqs[3].outcome = "err"
  /\ error = ErrMessage(reqs[3])
  /\ Cardinality(dbDrills) = 1

\* a loadAthleteData run whose sessions request the backend answered
SessionsFetched ==
  /\ op' \in {"loadData", "handleSelectAthlete"}
  /\ \E i \in 1..Len(reqs') :
       reqs'[i].table = "sessions" /\ reqs'[i].outcome = "ok"

LoggedOf(athleteId) == {r \in LoggedSessions : r.athlete_id = athleteId}

\* the session the latest handleQuickLog inserted for the athlete
NewestLogged(athleteId) ==
  CHOOSE r \in LoggedOf(athleteId) : \A x \in LoggedOf(athleteId) : x.id <= r.id

\* what the form that was submitted for row r promises the list entry to be
SubmittedEntry(r) ==
  LET form == CHOOSE f \in LogForms : f.date = r.date IN
  [id |-> r.id, date |-> form.date, duration |-> form.duration,
   focus |-> form.focus, note |-> form.note, reflection |-> form.reflection]

\* C6 as stated: after handleQuickLog inserted session S for the athlete, a
\* following loadAthleteData fetch has S as its first element, also when the
\* date of S is earlier than an existing session's, with the submitted date,
\* duration and focus and with note and reflection as submitted ('' if none).
C6_LoggedSessionFirst ==
  [][ (SessionsFetched /\ LoggedOf(athlete') # {}) =>
        /\ sessions' # <<>>
        /\ sessions'[1] = SubmittedEntry(NewestLogged(athlete')) ]_vars

\* C6 amended: the fetch is in descending date order; with at most 50
\* sessions of the athlete it contains S with the submitted date, duration
\* and focus and with note and reflection as submitted ('' if none); S is the
\* first element when its date is later than every other session's.
C6_LoggedSessionByDate ==
  [][ (SessionsFetched /\ LoggedOf(athlete') # {}) =>
        LET new == NewestLogged(athlete')
            rows == SessionRowsOf(athlete')
        IN
        /\ \A i, j \in 1..Len(sessions') :
             i < j => sessions'[i].date >= sessions'[j].date
        /\ Cardinality(rows) <= SessionFetchLimit =>
             \E i \in 1..Len(sessions') : sessions'[i] = SubmittedEntry(new)
        /\ (\A r \in rows \ {new} : r.date < new.date) =>
             /\ sessions' # <<>>
             /\ sessions'[1] = SubmittedEntry(new) ]_vars

C6_Witness ==
  /\ op = "handleSelectAthlete"
  /\ reqs # <<>>
  /\ reqs[1].outcome = "ok"
  /\ Len(sessions) = 2
  /\ sessions[1].id = 1
  /\ sessions[1].note = ""
  /\ sessions[1].date > sessions[2].date

\* C3: createAthlete inserts no athletes row while isPro is false and the
\* account already has an athlete, also when the add-athlete prompt is still
\* showing after a downgrade.
C3_NoSecondAthleteWhenFree ==
  [][ (op' = "createAthlete" /\ ~isPro /\ dbAthletes # <<>>) =>
        dbAthletes' = dbAthletes ]_vars

\* a loadData run whose roster request returned at least one athlete
RosterLoaded ==
  /\ op' = "loadData"
  /\ Len(reqs') >= 2
  /\ reqs'[1].table = "athletes"
  /\ reqs'[1].outcome = "ok"

\* C10: handleSelectAthlete(B) for a roster athlete B leaves B's id in the
\* durable storage, and a loadData whose fetched roster contains the stored
\* athlete selects it, wherever it stands in the roster, and keeps it stored.
C10_SelectionSurvivesReload ==
  [][ /\ op' = "handleSelectAthlete" =>
           /\ athlete' \in Range(athletes)
           /\ storage' = athlete'
      /\ (RosterLoaded /\ storage \in Range(athletes')) =>
           /\ athlete' = storage
           /\ storage' = storage ]_vars

C10_Witness ==
  /\ op = "loadData"
  /\ opPro
  /\ Len(athletes) = 2
  /\ athlete = storage
  /\ athlete # athletes[1]

FetchProfileOps ==
  {"fetchProfile:" \o o : o \in ProfileOutcomes}

\* the completion of the i-th pending fetchProfile without a profile row:
\* non-2xx answer, abort after the timeout, network fault, unreadable body,
\* or a body with no row
FetchProfileFailed(i) ==
  /\ op' \in FetchProfileOps
  /\ inflight' = SubSeq(inflight, 1, i - 1) \o SubSeq(inflight, i + 1, Len(inflight))
  /\ \/ op' # "fetchProfile:rows"
     \/ ProfileRows(inflight[i]) = <<>>

\* C8: fetchProfile(userId) that fails in any of these ways sets the profile
\* to {id: userId, is_pro: false}, sets the auth loading flag to false, and
\* isPro is false afterwards.
C8_FailedFetchGivesFreeProfile ==
  [][ \A i \in 1..Len(inflight) :
        FetchProfileFailed(i) =>
          /\ profile' = <<[id |-> inflight[i].userId, is_pro |-> FALSE,
                           pro_expires_at |-> 0]>>
          /\ authLoading' = FALSE
          /\ ~isPro' ]_vars

C8_Witness ==
  /\ op = "fetchProfile:timeout"
  /\ dbProfile # <<>>
  /\ dbProfile[1].is_pro
  /\ profile = <<[id |-> UserId, is_pro |-> FALSE, pro_expires_at |-> 0]>>
  /\ ~authLoading
  /\ ~isPro

\* the entitlement as specified, evaluated at time t (0: no expiry)
Entitled(p, t) ==
  /\ p # <<>>
  /\ p[1].is_pro = TRUE
  /\ (p[1].pro_expires_at = 0 \/ p[1].pro_expires_at > t)

HandlerOps ==
  {"handleSelectAthlete", "toggleDrill", "handleQuickLog", "saveGoal",
   "createAthlete", "onAddAthlete", "openProUpsell", "closeProUpsell",
   "refreshProfile", "dismissError", "openGoalEdit", "addAnotherGoal",
   "selectGoalSkill", "typeGoalText", "cancelGoalEdit"}

\* C9: isPro is true exactly when the profile is present with is_pro true and
\* its expiry is absent or later than the time of the evaluation; it is false
\* for no profile, for the default profile and when the expiry equals that
\* time; every render evaluates it anew, so a handler uses the value of the
\* latest profile, and so does the load a profile replacement starts.
C9_EntitlementFormula ==
  /\ [](isPro = Entitled(profile, renderNow))
  /\ []((profile = <<>> \/ profile = DefaultProfile(UserId)) => ~isPro)
  /\ []((profile # <<>> /\ profile[1].pro_expires_at # 0
           /\ profile[1].pro_expires_at = renderNow) => ~isPro)
  /\ [][ (profile' # profile) => renderNow' = now' ]_vars
  /\ [][ (op' \in HandlerOps) => opPro' = Entitled(profile, renderNow) ]_vars
  /\ [][ (op' \in FetchProfileOps /\ loadPending = 0 /\ loadPending' # 0) =>
           (loadPending' = 2) = Entitled(profile', now') ]_vars

C9_Witness ==
  /\ op = "openProUpsell"
  /\ ~opPro
  /\ profile # <<>>
  /\ profile[1].is_pro
  /\ profile[1].pro_expires_at = 1
  /\ now = 1

\* the Store methods that talk to the gateway
StoreOps ==
  {"loadData", "handleSelectAthlete", "handleQuickLog", "saveGoal",
   "createAthlete"}

\* C11: when a gateway call of a Store method returns an error value, the
\* method issues no further request, sets the error state to the backend's
\* message and leaves sessions, goals, athletes and drillFrequency as they
\* were before the method started (for an error inside the loadAthleteData
\* that loadData runs: as they were when loadAthleteData started, the roster
\* being set already).
C11_ErrorAbortsUntouched ==
  [][ (op' \in StoreOps) =>
        \A i \in 1..Len(reqs') :
          reqs'[i].outcome = "err" =>
            /\ i = Len(reqs')
            /\ error' = ErrMessage(reqs'[i])
            /\ sessions' = sessions
            /\ goals' = goals
            /\ (reqs'[i].table = "athletes" \/ op' # "loadData") =>
                 athletes' = athletes
            /\ drillFrequency' = drillFrequency ]_vars

\* the handler's request of this kind for the goals row id was accepted
GoalRequestAccepted(method, tag, id) ==
  \E i \in 1..Len(reqs') :
    /\ reqs'[i] = Req(method, "goals", id, tag, 0, "ok")

\* C12: handleQuickLog, saveGoal and createAthlete change the sessions list,
\* the goals map and the roster only for requests the backend accepted: a
\* session or athlete is added only when every request of the action was
\* accepted, a goal is added, re-texted, removed or marked inactive only when
\* its own insert, update or delete was.
C12_LocalChangeOnlyAfterSuccess ==
  [][ (op' \in {"handleQuickLog", "saveGoal", "createAthlete"}) =>
        /\ (sessions' # sessions \/ athletes' # athletes) =>
             \A i \in 1..Len(reqs') : reqs'[i].outcome = "ok"
        /\ \A k \in Skills :
             /\ (goals[k] = <<>> /\ goals'[k] # <<>>) =>
                  GoalRequestAccepted("insert", k, goals'[k][1].id)
             /\ (goals[k] # <<>> /\ goals'[k] = <<>>) =>
                  GoalRequestAccepted("delete", "", goals[k][1].id)
             /\ (goals[k] # <<>> /\ goals'[k] # <<>>) =>
                  /\ goals'[k][1].id = goals[k][1].id
                  /\ goals'[k][1].text # goals[k][1].text =>
                       GoalRequestAccepted("update", "text", goals[k][1].id)
                  /\ goals'[k][1].isActive # goals[k][1].isActive =>
                       GoalRequestAccepted("update", "is_active", goals[k][1].id) ]_vars

C14_SignedOutMeansNoProfile ==
  [](( /\ ~boot
       /\ session = 0
       /\ user = 0
       /\ inflight = <<>> ) => profile = <<>>)

\* C15: Pro tier, whatever the goal editor was opened with (the card's Add or
\* Edit button, Add another goal, a skill chip of the Set Goal modal): the
\* backend never holds more than 3 active goals of the current athlete and
\* never two active goals of one skill.
C15_ProAtMostThreeActive ==
  [](isPro =>
       /\ Cardinality(ActiveGoalRows(athlete)) <= MaxGoalsShown
       /\ \A g, h \in ActiveGoalRows(athlete) : g.skill = h.skill => g = h)

\* C16: in loadAthleteData an error returned by the sessions, the goals or
\* (Pro) the drill_frequency fetch ends the load with the error state set to
\* that error's message; what earlier steps of the call have set stays (the
\* fetched sessions when the goals fetch fails), what later steps would set
\* is as it was.
C16_LoadErrorAbortsAndKeeps ==
  [][ (op' \in {"loadData", "handleSelectAthlete"}) =>
        \A i \in 1..Len(reqs') :
          (reqs'[i].table # "athletes" /\ reqs'[i].outcome = "err") =>
            /\ i = Len(reqs')
            /\ error' = ErrMessage(reqs'[i])
            /\ drillFrequency' = drillFrequency
            /\ reqs'[i].table = "sessions" =>
                 sessions' = sessions /\ goals' = goals
            /\ reqs'[i].table = "goals" =>
                 /\ \E rows \in SessionFetch(athlete', SessionFetchLimit) :
                      sessions' = MapDisplay(rows)
                 /\ goals' = goals
            /\ reqs'[i].table = "drill_frequency" =>
                 /\ \E rows \in SessionFetch(athlete', SessionFetchLimit) :
                      sessions' = MapDisplay(rows)
                 /\ goals' \in GoalsMaps(athlete') ]_vars

\* the map g agrees with the goals rows of the current athlete: a skill is
\* active in g exactly when rows hold an active goal of it with the same id
\* and text, and a goal that is inactive in g is inactive in rows
AgreesWithBackend(g, rows) ==
  /\ {[id |-> g[k][1].id, skill |-> k, text |-> g[k][1].text] :
        k \in ActiveSkills(g)}
     = {[id |-> r.id, skill |-> r.skill, text |-> r.text] :
        r \in {x \in rows : x.athlete_id = athlete /\ x.is_active}}
  /\ \A k \in Skills :
       (g[k] # <<>> /\ ~g[k][1].isActive) =>
         \A r \in rows : r.id = g[k][1].id => ~r.is_active

\* C17: saveGoal, on every branch and with every outcome, takes a goals map
\* that agrees with the backend to one that agrees with the backend.
C17_SaveGoalKeepsAgreement ==
  [][ (op' = "saveGoal" /\ AgreesWithBackend(goals, dbGoals)) =>
        AgreesWithBackend(goals', dbGoals') ]_vars

\* C18: loadData with a non-empty fetched roster selects the roster athlete
\* whose id is stored under selectedAthleteId if there is one, else the first
\* of the roster; it stores the selected id and runs loadAthleteData for that
\* id, whatever that load then answers.
C18_LoadDataSelection ==
  [][ RosterLoaded =>
        /\ athletes' \in AthleteFetch(AthleteLimit(opPro'))
        /\ athlete' = IF storage \in Range(athletes') THEN storage
                      ELSE athletes'[1]
        /\ storage' = athlete'
        /\ reqs'[2] = SessionsReq(athlete', reqs'[2].outcome) ]_vars

C18_Witness ==
  /\ op = "loadData"
  /\ Len(reqs) = 2
  /\ reqs[2].outcome = "err"
  /\ Len(athletes) = 2
  /\ athlete = athletes[2]
  /\ storage = athlete

\* C19: loadData whose athletes query is answered with no row shows the
\* add-athlete prompt, ends loading and stops: no further request, nothing
\* written to the durable storage, athlete, sessions and goals as they were.
C19_EmptyRosterPromptsOnly ==
  [][ (/\ op' = "loadData"
       /\ reqs'[1].outcome = "ok"
       /\ dbAthletes = <<>>) =>
        /\ showAddAthlete'
        /\ ~loading'
        /\ Len(reqs') = 1
        /\ storage' = storage
        /\ athlete' = athlete
        /\ sessions' = sessions
        /\ goals' = goals ]_vars

C19_Witness ==
  /\ op = "loadData"
  /\ dbAthletes = <<>>
  /\ Len(reqs) = 1
  /\ reqs[1].outcome = "ok"
  /\ showAddAthlete
  /\ ~loading
  /\ storage = ForeignAthleteId

\* a saveGoal step with text for a skill whose map entry has a goal
SaveGoalUpdates ==
  /\ op' = "saveGoal"
  /\ showGoalEdit # ""
  /\ editGoalText # ""
  /\ goals[showGoalEdit] # <<>>

\* C20: saveGoal with text for a skill whose map entry has a goal id issues
\* exactly one request, an update of the text of that goal, in both tiers; no
\* insert and no deactivation.  The backend row changes in its text only, the
\* map entry keeps id and isActive (true or false) and takes the new text
\* when the update was accepted, and every other entry is unchanged.
C20_UpdateChangesTextOnly ==
  [][ SaveGoalUpdates =>
        LET k == showGoalEdit
            old == goals[k][1]
            accepted == reqs'[1].outcome = "ok"
        IN
        /\ reqs' = <<Req("update", "goals", old.id, "text", 0, reqs'[1].outcome)>>
        /\ \A j \in Skills \ {k} : goals'[j] = goals[j]
        /\ goals'[k] = <<[old EXCEPT !.text = IF accepted THEN editGoalText
                                                ELSE old.text]>>
        /\ dbGoals' = { IF r.id = old.id /\ accepted
                        THEN [r EXCEPT !.text = editGoalText] ELSE r :
                        r \in dbGoals } ]_vars

C20_Witness ==
  /\ op = "saveGoal"
  /\ Len(reqs) = 1
  /\ reqs[1].tag = "text"
  /\ reqs[1].outcome = "ok"
  /\ \E k \in Skills :
       /\ goals[k] # <<>>
       /\ goals[k][1].id = reqs[1].id
       /\ ~goals[k][1].isActive
       /\ goals[k][1].text = "g1"

\* ------------------------------------------------------- error rendering
\* The render of PracticeTrackerApp shows the error text in two places only:
\* inline in the Add Athlete modal (showAddAthlete && !loading) and as the
\* banner of the main block (!loading && athlete).
ErrorRendered ==
  /\ error # NoError
  /\ ~loading
  /\ (showAddAthlete \/ athlete # 0)

\* C21: in every state of the signed-in application, with no load about to
\* start, where the error state is non-null and loading is false, the error
\* text is rendered (banner or inline message of the add-athlete prompt),
\* also after a failed athletes query of loadData with no current athlete.
C21_ErrorIsRendered ==
  [](Mounted /\ loadPending = 0 /\ error # NoError /\ ~loading
       => ErrorRendered)

\* C22: whenever no operation of the component is in flight and an athlete
\* is current, every session of the in-memory list and every goal of the
\* in-memory map is a backend row of the current athlete, also after
\* createAthlete selected a new athlete while another one's data was loaded.
C22_DataOfCurrentAthlete ==
  [](MainVisible =>
       /\ \A i \in 1..Len(sessions) :
            \E r \in dbSessions :
              r.id = sessions[i].id /\ r.athlete_id = athlete
       /\ \A k \in Skills :
            goals[k] # <<>> =>
              \E g \in dbGoals :
                g.id = goals[k][1].id /\ g.athlete_id = athlete)

\* C26: whenever an athlete is current and no operation of the component is
\* in flight, the storage key selectedAthleteId holds the current athlete's
\* id, after any sequence of loadData, handleSelectAthlete and createAthlete.
C26_StorageHoldsCurrent ==
  [](MainVisible => storage = athlete)

\* C30: whenever an athlete is current, it is a member of the in-memory
\* roster, whatever id the storage key held.
C30_CurrentInRoster ==
  [](athlete # 0 => athlete \in Range(athletes))

\* an athlete is current although the storage key named an id that is not
\* in the roster, and an athlete created afterwards is current
C30_Witness ==
  /\ op = "createAthlete"
  /\ reqs[1].outcome = "ok"
  /\ athlete = Len(athletes)
  /\ Len(athletes) > 1
  /\ storage = ForeignAthleteId

\* C23: when handleQuickLog has completed, with success or with an error,
\* every session row it inserted in the backend appears exactly once in the
\* in-memory sessions list.
C23_InsertedSessionListed ==
  [][ op' = "handleQuickLog" =>
        \A r \in dbSessions' \ dbSessions :
          Cardinality({i \in 1..Len(sessions') : sessions'[i].id = r.id}) = 1
    ]_vars

\* C27: the in-memory sessions list is ordered by date descending in every
\* reachable state, so its first element has the latest date.
C27_SessionsDateDescending ==
  [](\A i, j \in 1..Len(sessions) :
       i < j => sessions[i].date >= sessions[j].date)

\* C24: loadData never runs with an entitlement taken from a profile that was
\* not yet fetched: whenever the backend profile is Pro-entitled and the
\* client holds either no profile yet or that very row, the athletes query
\* of loadData has limit 10 and a load whose requests all succeed includes
\* the drill_frequency fetch.
C24_LoadDataUsesFetchedProfile ==
  [][ (/\ loadPending # 0
       /\ op' = "loadData"
       /\ IsPro(dbProfile, now)
       /\ profile \in {<<>>, dbProfile})
      =>
      /\ reqs'[1].limit = ProAthleteLimit
      /\ (\A i \in 1..Len(reqs') : reqs'[i].outcome = "ok")
           => \E i \in 1..Len(reqs') : reqs'[i].table = "drill_frequency"
    ]_vars

\* C25: the profile request that refreshProfile issues carries the signed-in
\* user's access token, like the fetch performed at sign-in.
C25_RefreshCarriesToken ==
  [][ op' = "refreshProfile" /\ Len(inflight') > Len(inflight)
        => inflight'[Len(inflight')].token ]_vars

C29_FlagsAreCleared ==
  /\ [][ op' \in {"loadData", "handleSelectAthlete"} => ~loading' ]_vars
  /\ [][ op' \in {"handleQuickLog", "saveGoal", "createAthlete"}
          => ~saving' ]_vars
  /\ ((Mounted /\ loading) ~> ~loading)
  /\ (saving ~> ~saving)

\* a createAthlete whose insert failed has returned and cleared the flag
C29_Witness ==
  /\ op = "createAthlete"
  /\ reqs[1].outcome # "ok"
  /\ error # NoError
  /\ ~saving
  /\ ~loading

====
